---- MODULE Spec2Model ----
(***************************************************************************)
(* Calorie model of forwauzz/fitness-ai: train.py (load_frame, main,       *)
(* update_profile_metrics), predict.py (ensure_model,                      *)
(* predict_with_profile) and create_sample_data.py, as a state machine     *)
(* over the four files the scripts share: data.csv, profile.json,          *)
(* models/model_xgb.pkl and models/metadata.json.                          *)
(*                                                                         *)
(* Numbers: gram and kcal values are integers; ratios and scores are in    *)
(* hundredths (0.25 is 25, 1.0 is 100).  Text is a sequence of one-char    *)
(* strings, so that lower() and the substring test `a in b` are computed.  *)
(* A JSON object is a function from key strings, so that a missing key     *)
(* and dict.get(key, default) are modelled as the code sees them.          *)
(***************************************************************************)
EXTENDS Integers, Sequences, FiniteSets, TLC

VARIABLES data, profile, modelFile, metaFile, frame, trainOut, predOut, now

vars == <<data, profile, modelFile, metaFile, frame, trainOut, predOut, now>>

(* ------------------------------ bounds --------------------------------- *)
\* longest data.csv of the training runs
MaxRows == 12
\* script runs (train or predict) in one behaviour
MaxRuns == 2
\* rows of a data.csv of the label-synthesis specification
MaxFrameRows == 2

(* ------------------------------ values --------------------------------- *)
\* np.nan in a numeric cell or metric
NaN == -100000

Min(a, b) == IF a <= b THEN a ELSE b

Range(s) == {s[i] : i \in 1..Len(s)}

\* dict.get(key, default)
Get(d, k, default) == IF k \in DOMAIN d THEN d[k] ELSE default

\* d[key] = value on a dict
Put(d, k, v) == [x \in (DOMAIN d) \cup {k} |-> IF x = k THEN v ELSE d[x]]

\* truth value of a dict: {} is falsy
Truthy(d) == DOMAIN d # {}

EmptyDict == <<>>

(* ------------------------------- text ---------------------------------- *)
\* the cased letters of ASCII and Latin-1, the alphabet of the model's text; every
\* other character of that alphabet is its own lower case
UpperCase == <<"A","B","C","D","E","F","G","H","I","J","K","L","M",
               "N","O","P","Q","R","S","T","U","V","W","X","Y","Z",
               "À","Á","Â","Ã","Ä","Å","Æ","Ç","È","É","Ê","Ë","Ì","Í","Î",
               "Ï","Ð","Ñ","Ò","Ó","Ô","Õ","Ö","Ø","Ù","Ú","Û","Ü","Ý","Þ">>
LowerCase == <<"a","b","c","d","e","f","g","h","i","j","k","l","m",
               "n","o","p","q","r","s","t","u","v","w","x","y","z",
               "à","á","â","ã","ä","å","æ","ç","è","é","ê","ë","ì","í","î",
               "ï","ð","ñ","ò","ó","ô","õ","ö","ø","ù","ú","û","ü","ý","þ">>

LowerChar(c) ==
    IF \E i \in 1..Len(UpperCase) : UpperCase[i] = c
    THEN LowerCase[CHOOSE i \in 1..Len(UpperCase) : UpperCase[i] = c]
    ELSE c

\* str.lower()
Lower(s) == [i \in 1..Len(s) |-> LowerChar(s[i])]

\* `sub in s` on strings
Contains(sub, s) ==
    \E i \in 0..(Len(s) - Len(sub)) : SubSeq(s, i + 1, i + Len(sub)) = sub

T_chicken_rice == <<"c","h","i","c","k","e","n"," ","r","i","c","e">>
T_rice == <<"r","i","c","e">>
T_Chicken == <<"C","h","i","c","k","e","n">>
T_yogurt == <<"y","o","g","u","r","t">>
T_Rice_bowl == <<"R","i","c","e"," ","b","o","w","l">>
T_oats == <<"o","a","t","s">>
T_CAFE == <<"C","A","F","É">>
T_cafe_au_lait == <<"c","a","f","é"," ","a","u"," ","l","a","i","t">>
T_dinner == <<"d","i","n","n","e","r">>
T_snack == <<"s","n","a","c","k">>
T_lunch == <<"l","u","n","c","h">>
T_s0 == <<"c","h","i","c","k","e","n"," ","b","r","e","a","s","t",";"," ",
          "r","i","c","e",";"," ","o","l","i","v","e"," ","o","i","l">>
T_s1 == <<"m","i","n","i"," ","r","i","c","e"," ","c","r","i","s","p","i","e","s">>
T_s2 == <<"s","w","e","e","t"," ","p","o","t","a","t","o","e","s",";"," ",
          "s","a","u","s","a","g","e">>
T_s3 == <<"s","t","e","a","k",";"," ","v","e","g","g","i","e","s",";"," ",
          "s","w","e","e","t"," ","p","o","t","a","t","o","e","s">>
T_s4 == <<"y","o","g","u","r","t",";"," ","c","a","s","h","e","w","s">>
\* an empty CSV cell, which pandas reads as NaN
EmptyCell == <<>>

(* ------------------------------ data.csv ------------------------------- *)
NumCols == {"protein_g", "carbs_g", "fat_g", "calories_kcal"}

MkRow(mt, it, p, c, f, k) ==
    [meal_type |-> mt, items |-> it, protein_g |-> p, carbs_g |-> c,
     fat_g |-> f, calories_kcal |-> k]

\* the file create_sample_data.py writes
SampleData ==
    [columns |-> NumCols,
     rows |-> << MkRow(T_dinner, T_s0, 35, 45, 15, 450),
                 MkRow(T_snack,  T_s1,  1, 13,  1,  68),
                 MkRow(T_dinner, T_s2, 18, 35, 12, 320),
                 MkRow(T_lunch,  T_s3, 42, 35, 18, 520),
                 MkRow(T_snack,  T_s4, 12, 25, 15, 280) >>]

(* ----------------------------- profile.json ---------------------------- *)
\* load_profile(): the parsed object, or None for a missing or unparsable file
ProfileIsNone(pf) == pf.file # "ok"

load_profile(pf) == IF ProfileIsNone(pf) THEN EmptyDict ELSE pf.json

\* `profile and profile.get("preferences")`
HasPreferences(pf) ==
    /\ ~ProfileIsNone(pf)
    /\ Truthy(pf.json)
    /\ "preferences" \in DOMAIN pf.json
    /\ Truthy(pf.json["preferences"])

\* any(w.lower() in text.lower() for w in set(words))
AnyIn(words, text) == \E w \in Range(words) : Contains(Lower(w), Lower(text))

\* the seven profile columns load_frame adds, for a row with this items cell
TrainProfileFeatures(pf, items) ==
    IF HasPreferences(pf)
    THEN LET prefs == pf.json["preferences"]
             macro_prefs == Get(Get(pf.json, "dietary_patterns", EmptyDict),
                                "macro_preferences", EmptyDict)
             learning_metrics == Get(pf.json, "learning_metrics", EmptyDict)
             \* any(...) if pd.notna(x) else False
             Has(key) == IF items # EmptyCell /\ AnyIn(Get(prefs, key, <<>>), items)
                         THEN 1 ELSE 0
         IN [has_favorite_food |-> Has("favorite_foods"),
             has_favorite_snack |-> Has("favorite_snacks"),
             has_grocery_item |-> Has("grocery_items"),
             profile_protein_ratio |-> Get(macro_prefs, "protein_ratio", 0),
             profile_carbs_ratio |-> Get(macro_prefs, "carbs_ratio", 0),
             profile_fat_ratio |-> Get(macro_prefs, "fat_ratio", 0),
             personalization_score |->
                 Get(learning_metrics, "personalization_score", 0)]
    ELSE [has_favorite_food |-> 0, has_favorite_snack |-> 0, has_grocery_item |-> 0,
          profile_protein_ratio |-> 0, profile_carbs_ratio |-> 0,
          profile_fat_ratio |-> 0, personalization_score |-> 0]

(* ------------------------------ load_frame ----------------------------- *)
\* faulty variant: personalization_score listed before the three ratios
feature_cols_reordered ==
    << "protein_g", "carbs_g", "fat_g",
       "has_favorite_food", "has_favorite_snack", "has_grocery_item",
       "personalization_score",
       "profile_protein_ratio", "profile_carbs_ratio", "profile_fat_ratio" >>

feature_cols ==
    << "protein_g", "carbs_g", "fat_g",
       "has_favorite_food", "has_favorite_snack", "has_grocery_item",
       "profile_protein_ratio", "profile_carbs_ratio", "profile_fat_ratio",
       "personalization_score" >>

\* a column the file lacks is added as all-NaN
Cell(d, i, col) == IF col \in d.columns THEN d.rows[i][col] ELSE NaN

\* faulty variant: fat counted at 4 kcal per gram
SynthesizeFatAsFour(p, c, f) == 4 * p + 4 * c + 4 * f

\* 4/4/9
Synthesize(p, c, f) == 4 * p + 4 * c + 9 * f

\* faulty variant: the label is synthesized whenever the macros are present, a
\* logged calorie value included
LabelledOverwritingReal(d, i) ==
    LET p == Cell(d, i, "protein_g")
        c == Cell(d, i, "carbs_g")
        f == Cell(d, i, "fat_g")
        k == Cell(d, i, "calories_kcal")
        synth_mask == p # NaN /\ c # NaN /\ f # NaN
        cal == IF synth_mask THEN Synthesize(p, c, f) ELSE k
    IN [index |-> i - 1, items |-> d.rows[i].items,
        protein_g |-> p, carbs_g |-> c, fat_g |-> f,
        calories_kcal |-> cal,
        label_is_synthetic |-> synth_mask /\ cal # NaN]

\* one row after the label synthesis: calories_kcal and label_is_synthetic
Labelled(d, i) ==
    LET p == Cell(d, i, "protein_g")
        c == Cell(d, i, "carbs_g")
        f == Cell(d, i, "fat_g")
        k == Cell(d, i, "calories_kcal")
        need_cals == k = NaN
        have_macros == p # NaN /\ c # NaN /\ f # NaN
        synth_mask == need_cals /\ have_macros
        cal == IF synth_mask THEN Synthesize(p, c, f) ELSE k
    IN [index |-> i - 1, items |-> d.rows[i].items,
        protein_g |-> p, carbs_g |-> c, fat_g |-> f,
        calories_kcal |-> cal,
        label_is_synthetic |-> synth_mask /\ cal # NaN]

\* faulty variant: dropna on calories_kcal alone
CompleteCaloriesOnly(r) == r.calories_kcal # NaN

\* dropna(subset=[protein_g, carbs_g, fat_g, calories_kcal])
Complete(r) ==
    r.protein_g # NaN /\ r.carbs_g # NaN /\ r.fat_g # NaN /\ r.calories_kcal # NaN

\* the meal rows (meal_type present), labelled, the incomplete ones dropped
MealRows(d) ==
    LET idx == SelectSeq([i \in 1..Len(d.rows) |-> i],
                         LAMBDA i : d.rows[i].meal_type # EmptyCell)
    IN SelectSeq([j \in 1..Len(idx) |-> Labelled(d, idx[j])], Complete)

\* a kept row with its seven profile columns
WithProfile(r, pf) == r @@ TrainProfileFeatures(pf, r.items)

\* meals[feature_cols]: one row of X, the columns in the order of feature_cols
FeatureRow(r) == [i \in 1..Len(feature_cols) |-> r[feature_cols[i]]]

\* meals, X, y, feature_cols
FrameOf(meals) ==
    [meals |-> meals,
     X |-> [j \in 1..Len(meals) |-> FeatureRow(meals[j])],
     y |-> [j \in 1..Len(meals) |-> meals[j].calories_kcal],
     feature_cols |-> feature_cols]

AddProfile(kept, pf) == [j \in 1..Len(kept) |-> WithProfile(kept[j], pf)]

load_frame(d, pf) == FrameOf(AddProfile(MealRows(d), pf))

NoFrame == [meals |-> <<>>, X |-> <<>>, y |-> <<>>, feature_cols |-> <<>>]

(* ------------------------- train.py: main ------------------------------ *)
\* outputs of the fitted models that the numeric libraries decide
R2Values == {40}
MaeValues == {7}
\* sizes in bytes that joblib.dump may give models/model_xgb.pkl: a boosted model of
\* 200 or 300 trees is far above 1024 bytes, a pickled linear model of ten
\* coefficients may be on either side of it
ModelSizes(n) == IF n >= 3 THEN {200000} ELSE {900, 2048}

\* the character spelling of a feature column's name
Spell(name) ==
    CASE name = "protein_g" -> <<"p","r","o","t","e","i","n","_","g">>
      [] name = "carbs_g" -> <<"c","a","r","b","s","_","g">>
      [] name = "fat_g" -> <<"f","a","t","_","g">>
      [] name = "has_favorite_food" ->
           <<"h","a","s","_","f","a","v","o","r","i","t","e","_","f","o","o","d">>
      [] name = "has_favorite_snack" ->
           <<"h","a","s","_","f","a","v","o","r","i","t","e","_","s","n","a","c","k">>
      [] name = "has_grocery_item" ->
           <<"h","a","s","_","g","r","o","c","e","r","y","_","i","t","e","m">>
      [] name = "profile_protein_ratio" ->
           <<"p","r","o","f","i","l","e","_","p","r","o","t","e","i","n","_",
             "r","a","t","i","o">>
      [] name = "profile_carbs_ratio" ->
           <<"p","r","o","f","i","l","e","_","c","a","r","b","s","_","r","a","t","i","o">>
      [] name = "profile_fat_ratio" ->
           <<"p","r","o","f","i","l","e","_","f","a","t","_","r","a","t","i","o">>
      [] name = "personalization_score" ->
           <<"p","e","r","s","o","n","a","l","i","z","a","t","i","o","n","_",
             "s","c","o","r","e">>

\* the mock feature importance of column i (0-based), in thousandths
Importance(col, i) ==
    LET name == Spell(col)
    IN IF \/ Contains(<<"p","r","o","t","e","i","n">>, name)
          \/ Contains(<<"c","a","r","b","s">>, name)
          \/ Contains(<<"f","a","t">>, name)
       THEN 300 + i * 50
       ELSE IF Contains(<<"f","a","v","o","r","i","t","e">>, name)
            THEN 100 + i * 20
            ELSE 50 + i * 10

\* faulty variant: the holdout threshold written as n > 10
CvNoteStrictHoldout(n) ==
    IF n > 10 THEN "holdout 25%"
    ELSE IF n >= 3 THEN (IF n >= 6 THEN "KFold CV" ELSE "LOO CV")
    ELSE "baseline (too few samples)"

\* the validation strategy main takes for n >= 1 usable samples
CvNote(n) ==
    IF n >= 10 THEN "holdout 25%"
    ELSE IF n >= 3 THEN (IF n >= 6 THEN "KFold CV" ELSE "LOO CV")
    ELSE "baseline (too few samples)"

\* the number of folds of the cross-validation branch (3 <= n < 10)
Folds(n) == IF n >= 6 THEN 3 ELSE n

\* train_test_split(test_size=0.25): the test part is ceil(0.25 * n) rows
TestRows(n) == (n + 3) \div 4

\* the rows the persisted model was fit on
FitRows(n) == IF n >= 10 THEN n - TestRows(n) ELSE n

Estimator(n) ==
    IF n >= 10 THEN "XGBRegressor(n_estimators=300)"
    ELSE IF n >= 3 THEN "XGBRegressor(n_estimators=200)"
    ELSE "LinearRegression"

\* the metrics dict; r2 and mae are what the library computed on the held-out rows
Metrics(n, r2, mae) ==
    IF n >= 10 THEN [r2 |-> r2, mae |-> mae]
    ELSE IF n >= 3
         \* leave-one-out folds hold one row: every fold's r2 is nan, and so is nanmean
         THEN [r2_mean |-> IF n >= 6 THEN r2 ELSE NaN, mae_mean |-> mae]
         ELSE [r2 |-> NaN, mae |-> NaN]

Metadata(n, metrics, cols, t) ==
    [saved_at |-> t,
     n_samples |-> n,
     cv_note |-> CvNote(n),
     metrics |-> metrics,
     schema |-> cols,
     label |-> "calories_kcal (real or synthetic via 4/4/9)",
     profile_integration |-> TRUE,
     feature_importance |->
        [c \in Range(cols) |->
            Importance(c, (CHOOSE i \in 1..Len(cols) : cols[i] = c) - 1)],
     training_history |->
        [total_training_runs |-> 1,
         last_improvement |-> t,
         best_r2 |-> Get(metrics, "r2", 0),
         best_mae |-> Get(metrics, "mae", 0)]]

\* faulty variant: the trend is never cut
TrendAfterUncut(trend, r2) == Append(trend, r2)

\* accuracy_trend after one run: append r2, keep the last 10
TrendAfter(trend, r2) ==
    LET appended == Append(trend, r2)
    IN IF Len(appended) > 10
       THEN SubSeq(appended, Len(appended) - 9, Len(appended))
       ELSE appended

\* whether update_profile_metrics records the run in accuracy_trend
RecordsTrend(metrics) == "r2" \in DOMAIN metrics

\* min(1.0, total_preferences * 0.1 + n_samples * 0.01), in hundredths
PersonalizationScore(prefs, n) ==
    LET total == Len(Get(prefs, "favorite_foods", <<>>))
                 + Len(Get(prefs, "favorite_snacks", <<>>))
                 + Len(Get(prefs, "grocery_items", <<>>))
    IN Min(100, total * 10 + n)

\* update_profile_metrics: [raised, saved, file]; raised is the KeyError of a profile
\* without "learning_metrics" or "dietary_patterns", which leaves the file as it
\* was; writable is whether open(PROFILE_PATH, 'w') succeeds, its failure being
\* caught and reported as a warning
update_profile_metrics(pf, metrics, n, model_confidence, t, writable) ==
    IF ProfileIsNone(pf) \/ ~Truthy(pf.json)
    THEN [raised |-> FALSE, saved |-> FALSE, file |-> pf]
    ELSE IF "learning_metrics" \notin DOMAIN pf.json
            \/ (n > 0 /\ "dietary_patterns" \notin DOMAIN pf.json)
    THEN [raised |-> TRUE, saved |-> FALSE, file |-> pf]
    ELSE IF ~writable
    THEN [raised |-> FALSE, saved |-> FALSE, file |-> pf]
    ELSE
      LET p0 == pf.json
          score == PersonalizationScore(Get(p0, "preferences", EmptyDict), n)
          lm1 == Put(Put(Put(p0["learning_metrics"],
                     "total_predictions", n),
                     "model_confidence", model_confidence),
                     "personalization_score", score)
          lm2 == IF RecordsTrend(metrics)
                 THEN Put(lm1, "accuracy_trend",
                          TrendAfter(Get(lm1, "accuracy_trend", <<>>), metrics["r2"]))
                 ELSE lm1
          p_lm == Put(p0, "learning_metrics", lm2)
          \* only `if n_samples > 0` touches profile["dietary_patterns"]
          p_dp == IF n > 0
                  THEN Put(p_lm, "dietary_patterns",
                           Put(p0["dietary_patterns"], "macro_preferences",
                               [protein_ratio |-> 25, carbs_ratio |-> 45,
                                fat_ratio |-> 30]))
                  ELSE p_lm
          p1 == Put(p_dp, "updated_at", t)
      IN [raised |-> FALSE, saved |-> TRUE, file |-> [file |-> "ok", json |-> p1]]

\* metrics["r2"] if present, else metrics.get("r2_mean", 0.0)
ModelConfidence(metrics) ==
    IF "r2" \in DOMAIN metrics THEN metrics["r2"] ELSE Get(metrics, "r2_mean", 0)

NoModel == [exists |-> FALSE, size |-> 0, estimator |-> "", fit_rows |-> 0,
            columns |-> <<>>]
NoMeta == [exists |-> FALSE, json |-> EmptyDict]
NoPred == [status |-> "none", via |-> "", p |-> 0, c |-> 0, f |-> 0, items |-> <<>>,
           items_nan |-> FALSE,
           model_loaded |-> FALSE, meta_read |-> FALSE, profile_read |-> FALSE,
           schema |-> <<>>,
           features |-> <<>>, columns |-> <<>>]

NoTrain == [status |-> "none", n |-> 0, cv_note |-> "", folds |-> 0,
            test_rows |-> 0, metrics |-> EmptyDict, profile_saved |-> FALSE]

\* the files and the report of a run that found n >= 1 usable rows
TrainRun(fr, n, metrics, size, upd) ==
    /\ modelFile' = [exists |-> TRUE, size |-> size,
                     estimator |-> Estimator(n),
                     fit_rows |-> FitRows(n),
                     columns |-> fr.feature_cols]
    /\ metaFile' = [exists |-> TRUE,
                    json |-> Metadata(n, metrics, fr.feature_cols, now)]
    /\ profile' = upd.file
    /\ trainOut' = [status |-> IF upd.raised THEN "profile_error" ELSE "ok",
                    n |-> n, cv_note |-> CvNote(n),
                    folds |-> IF n >= 3 /\ n < 10 THEN Folds(n) ELSE 0,
                    test_rows |-> IF n >= 10 THEN TestRows(n) ELSE 0,
                    metrics |-> metrics,
                    profile_saved |-> upd.saved]

\* faulty variant: no early exit
NoUsableRowsUnchecked(fr) == FALSE

\* `if n == 0: raise SystemExit(...)`
NoUsableRows(fr) == Len(fr.y) = 0

\* one run of train.py
TrainMain ==
    /\ now < MaxRuns
    /\ now' = now + 1
    /\ predOut' = NoPred
    /\ UNCHANGED data
    /\ \E fr \in {load_frame(data, profile)} :
         /\ frame' = fr
         /\ IF NoUsableRows(fr)
            THEN /\ trainOut' = [NoTrain EXCEPT !.status = "no_rows"]
                 /\ UNCHANGED <<profile, modelFile, metaFile>>
            ELSE \E r2 \in R2Values, mae \in MaeValues, size \in ModelSizes(Len(fr.y)),
                    writable \in BOOLEAN :
                   \E metrics \in {Metrics(Len(fr.y), r2, mae)} :
                      TrainRun(fr, Len(fr.y), metrics, size,
                               update_profile_metrics(profile, metrics, Len(fr.y),
                                                      ModelConfidence(metrics), now,
                                                      writable))

(* ------------------------------ predict.py ----------------------------- *)
\* os.path.getsize(MODEL_PATH) < MinModelBytes is "too small"
MinModelBytes == 1024

\* faulty variant: the size of the file is not looked at
ensure_model_exists_only(mf) == IF ~mf.exists THEN "model_not_found" ELSE "ok"

\* ensure_model: "ok", or the message it exits with
ensure_model(mf) ==
    IF ~mf.exists THEN "model_not_found"
    ELSE IF mf.size < MinModelBytes THEN "model_too_small"
    ELSE "ok"

\* metadata.get("schema", [...]) with the three macros as the fallback
PredictSchema(meta) ==
    IF meta.exists
    THEN Get(meta.json, "schema", <<"protein_g", "carbs_g", "fat_g">>)
    ELSE <<"protein_g", "carbs_g", "fat_g">>

\* whether predict_with_profile takes the profile branch
UsesProfile(pf, cols) == HasPreferences(pf) /\ Len(cols) > 3

\* the seven values predict_with_profile extends the vector with
PredictProfileFeatures(pf, items) ==
    LET prefs == pf.json["preferences"]
        macro_prefs == Get(Get(pf.json, "dietary_patterns", EmptyDict),
                           "macro_preferences", EmptyDict)
        learning_metrics == Get(pf.json, "learning_metrics", EmptyDict)
        Has(key) == IF AnyIn(Get(prefs, key, <<>>), items) THEN 1 ELSE 0
    IN << Has("favorite_foods"), Has("favorite_snacks"), Has("grocery_items"),
          Get(macro_prefs, "protein_ratio", 0),
          Get(macro_prefs, "carbs_ratio", 0),
          Get(macro_prefs, "fat_ratio", 0),
          Get(learning_metrics, "personalization_score", 0) >>

\* items.lower() is evaluated inside the three any(...) generators, so only when
\* one of the preference lists has an entry
LowersItems(pf) ==
    \E key \in {"favorite_foods", "favorite_snacks", "grocery_items"} :
       Len(Get(pf.json["preferences"], key, <<>>)) > 0

\* faulty variant: no padding
PadNothing(features, len) == features

\* while len(features) < len(feature_cols): features.append(0.0)
Pad(features, len) ==
    features \o [i \in 1..(IF len > Len(features) THEN len - Len(features) ELSE 0) |-> 0]

\* the vector handed to model.predict
PredictFeatures(pf, cols, p, c, f, items) ==
    Pad(<<p, c, f>> \o (IF UsesProfile(pf, cols)
                        THEN PredictProfileFeatures(pf, items) ELSE <<>>),
        Len(cols))

\* the column each position of that vector stands for: the three macros, then the
\* seven profile values in the order of features.extend, a padded position standing
\* for the schema column at its place
PredictColumns(pf, cols) ==
    LET built == <<"protein_g", "carbs_g", "fat_g">>
                 \o (IF UsesProfile(pf, cols)
                     THEN << "has_favorite_food", "has_favorite_snack",
                             "has_grocery_item", "profile_protein_ratio",
                             "profile_carbs_ratio", "profile_fat_ratio",
                             "personalization_score" >>
                     ELSE <<>>)
    IN built \o [i \in 1..(IF Len(cols) > Len(built) THEN Len(cols) - Len(built) ELSE 0)
                   |-> cols[Len(built) + i]]

\* the report of a call that loaded the model: model.predict raises on a vector
\* whose length is not the number of columns the model was fit on
Predicted(via, p, c, f, items, cols, features) ==
    [status |-> IF Len(features) = Len(modelFile.columns)
                THEN "ok" ELSE "shape_error",
     via |-> via, p |-> p, c |-> c, f |-> f, items |-> items, items_nan |-> FALSE,
     model_loaded |-> TRUE, meta_read |-> TRUE, profile_read |-> TRUE,
     schema |-> cols,
     features |-> features,
     columns |-> PredictColumns(profile, cols)]

\* predict_with_profile(p, c, f, items), called by `via`; items_nan says that the
\* caller passed the NaN of an empty items cell, on which the first items.lower()
\* of the profile branch raises AttributeError, predict.py having no notna guard
predict_with_profile(via, p, c, f, items, items_nan) ==
    IF ~modelFile.exists
    THEN [NoPred EXCEPT !.status = "load_error", !.via = via,
                        !.p = p, !.c = c, !.f = f, !.items = items,
                        !.items_nan = items_nan]
    ELSE IF /\ items_nan
            /\ UsesProfile(profile, PredictSchema(metaFile))
            /\ LowersItems(profile)
    THEN [status |-> "attribute_error",
          via |-> via, p |-> p, c |-> c, f |-> f, items |-> items,
          items_nan |-> TRUE,
          model_loaded |-> TRUE, meta_read |-> TRUE, profile_read |-> TRUE,
          schema |-> PredictSchema(metaFile),
          features |-> <<p, c, f>>,
          columns |-> <<"protein_g", "carbs_g", "fat_g">>]
    ELSE [Predicted(via, p, c, f, items, PredictSchema(metaFile),
                    PredictFeatures(profile, PredictSchema(metaFile), p, c, f, items))
            EXCEPT !.items_nan = items_nan]

\* one run of predict.py: ensure_model(), then predict_example(); a prediction
\* writes no file, so the predictions that follow another prediction produce the
\* outcomes of those that follow the training run, and only these are recorded
PredictMain ==
    /\ predOut.status = "none"
    /\ predOut' = IF ensure_model(modelFile) = "ok"
                  THEN predict_with_profile("script", 30, 60, 10, T_chicken_rice, FALSE)
                  ELSE [NoPred EXCEPT !.status = ensure_model(modelFile),
                                      !.via = "script"]
    /\ UNCHANGED <<data, profile, modelFile, metaFile, frame, trainOut, now>>

\* a call of predict_with_profile for a meal of the last training set; for a meal
\* whose items cell is empty the caller passes the cell as the frame holds it
\* (NaN) or the empty string
PredictCall ==
    /\ predOut.status = "none"
    /\ \E r \in Range(frame.meals) :
          \E items_nan \in (IF r.items = EmptyCell THEN BOOLEAN ELSE {FALSE}) :
             predOut' = predict_with_profile("call", r.protein_g, r.carbs_g,
                                             r.fat_g, r.items, items_nan)
    /\ UNCHANGED <<data, profile, modelFile, metaFile, frame, trainOut, now>>

(* --------------------------- the environment --------------------------- *)
Meal(it, p, c, f, k) == MkRow(T_dinner, it, p, c, f, k)

\* the meals a log of the training runs is made of, taken in turn
MealPool ==
    << Meal(T_chicken_rice, 30, 60, 10, 450),
       Meal(T_Rice_bowl, 20, 50, 5, NaN),
       Meal(EmptyCell, 10, 0, 3, 70),
       Meal(T_s4, 12, 25, 15, NaN),
       Meal(T_cafe_au_lait, 5, 8, 4, 88) >>

\* rows load_frame does not keep
JunkPool ==
    << MkRow(EmptyCell, EmptyCell, NaN, NaN, NaN, NaN),
       Meal(T_oats, NaN, 40, 6, 300) >>

\* a log of k usable meals followed by j rows that are not
Log(k, j) ==
    [columns |-> NumCols,
     rows |-> [i \in 1..k |-> MealPool[((i - 1) % Len(MealPool)) + 1]]
              \o [i \in 1..j |-> JunkPool[i]]]

TrainLogs == {Log(k, 0) : k \in 0..MaxRows} \cup {Log(4, 2), SampleData}

\* the logs data.csv is rewritten to between runs
Rewrites == {Log(0, 0), Log(7, 2)}

\* the profiles a run may find
Prefs == [favorite_foods |-> <<T_rice>>, favorite_snacks |-> <<T_yogurt>>,
          grocery_items |-> <<T_Chicken, T_oats>>]

Trend(k) == [i \in 1..k |-> 10 + i]

Json(d) == [file |-> "ok", json |-> d]

Profiles ==
    { [file |-> "missing", json |-> EmptyDict],
      [file |-> "corrupt", json |-> EmptyDict],
      Json(EmptyDict),
      Json([learning_metrics |-> EmptyDict, dietary_patterns |-> EmptyDict]),
      Json([preferences |-> EmptyDict, learning_metrics |-> EmptyDict,
            dietary_patterns |-> EmptyDict]),
      Json([preferences |-> Prefs]),
      Json([preferences |-> [favorite_foods |-> <<>>]]),
      Json([preferences |-> Prefs, learning_metrics |-> EmptyDict,
            dietary_patterns |-> EmptyDict]),
      Json([preferences |-> [favorite_foods |-> <<T_rice>>,
                             favorite_snacks |-> <<T_CAFE>>],
            learning_metrics |-> [personalization_score |-> 35,
                                  accuracy_trend |-> Trend(10)],
            dietary_patterns |-> [macro_preferences |->
                                    [protein_ratio |-> 30, carbs_ratio |-> 40,
                                     fat_ratio |-> 30]]]) }

\* data.csv is rewritten (the meal log is an input of the scripts); a rewrite that
\* no later run reads, or that only separates a prediction from its training
\* run, is left out
WriteData ==
    /\ predOut.status = "none"
    /\ now < MaxRuns
    /\ \E d \in Rewrites : data' = d
    /\ data' # data
    /\ UNCHANGED <<profile, modelFile, metaFile, frame, trainOut, predOut, now>>

\* create_sample_data.py: df.to_csv('data.csv') writes into the working directory,
\* which is the data.csv train.py reads only when the script is run from the
\* directory of the scripts; run from elsewhere it leaves that file as it was
CreateSampleData ==
    /\ predOut.status = "none"
    /\ now < MaxRuns
    /\ \E cwd_is_script_dir \in BOOLEAN :
          data' = IF cwd_is_script_dir THEN SampleData ELSE data
    /\ UNCHANGED <<profile, modelFile, metaFile, frame, trainOut, predOut, now>>

Init ==
    /\ data \in TrainLogs
    /\ profile \in Profiles
    /\ modelFile = NoModel
    /\ metaFile = NoMeta
    /\ frame = NoFrame
    /\ trainOut = NoTrain
    /\ predOut = NoPred
    /\ now = 0

Next ==
    \/ TrainMain
    \/ PredictMain
    \/ PredictCall
    \/ WriteData
    \/ CreateSampleData

Spec == Init /\ [][Next]_vars

(* ------------------- load_frame on its own inputs ---------------------- *)
FrameCells == {NaN, 2}

FrameRows ==
    { MkRow(mt, T_Rice_bowl, p, c, f, k) :
        mt \in {EmptyCell, T_lunch},
        p \in FrameCells, c \in FrameCells, f \in FrameCells, k \in {NaN, 5} }

FrameLogs ==
    { [columns |-> cs, rows |-> rs] :
        cs \in {NumCols, NumCols \ {"calories_kcal"}, NumCols \ {"fat_g"}},
        rs \in UNION { [1..m -> FrameRows] : m \in 0..MaxFrameRows } }

InitFrame ==
    /\ data \in FrameLogs
    /\ profile = Json([preferences |-> Prefs])
    /\ modelFile = NoModel
    /\ metaFile = NoMeta
    /\ frame = NoFrame
    /\ trainOut = NoTrain
    /\ predOut = NoPred
    /\ now = 0

\* load_frame() is called on the files as they are
LoadFrameCall ==
    /\ now = 0
    /\ now' = 1
    /\ frame' = load_frame(data, profile)
    /\ UNCHANGED <<data, profile, modelFile, metaFile, trainOut, predOut>>

NextFrame == LoadFrameCall

SpecFrame == InitFrame /\ [][NextFrame]_vars

(* ======================= load_frame: the labels ======================== *)
IsMeal(i) == data.rows[i].meal_type # EmptyCell

InputHasMacros(i) ==
    /\ Cell(data, i, "protein_g") # NaN
    /\ Cell(data, i, "carbs_g") # NaN
    /\ Cell(data, i, "fat_g") # NaN

InputCalories(i) == Cell(data, i, "calories_kcal")

FrameComputed == now = 1

\* C1: every meal row with the three macros present and calories_kcal missing is in
\* the training set with calories_kcal (and its y entry) equal to
\* 4*protein_g + 4*carbs_g + 9*fat_g.
C1_SynthesizedCaloriesExact ==
    FrameComputed =>
      \A i \in 1..Len(data.rows) :
        (IsMeal(i) /\ InputHasMacros(i) /\ InputCalories(i) = NaN) =>
          \E j \in 1..Len(frame.meals) :
            /\ frame.meals[j].index = i - 1
            /\ frame.meals[j].calories_kcal =
                 4 * Cell(data, i, "protein_g") + 4 * Cell(data, i, "carbs_g")
                 + 9 * Cell(data, i, "fat_g")
            /\ frame.y[j] = frame.meals[j].calories_kcal

\* a row of macros 2, 2, 2 without calories is in the training set with 34 kcal
C1_Witness ==
    /\ FrameComputed
    /\ \E j \in 1..Len(frame.meals) :
         /\ InputCalories(frame.meals[j].index + 1) = NaN
         /\ InputHasMacros(frame.meals[j].index + 1)
         /\ frame.meals[j].calories_kcal = 34

\* C2: every row of the training set has protein_g, carbs_g, fat_g and calories_kcal
\* present, and a meal row missing a macro is not in the training set and gets no
\* synthesized label, whether or not its calories_kcal is present.
C2_TrainingRowsComplete ==
    FrameComputed =>
      /\ \A j \in 1..Len(frame.meals) :
           /\ frame.meals[j].protein_g # NaN
           /\ frame.meals[j].carbs_g # NaN
           /\ frame.meals[j].fat_g # NaN
           /\ frame.meals[j].calories_kcal # NaN
           /\ \A c \in 1..3 : frame.X[j][c] # NaN
           /\ frame.y[j] # NaN
      /\ \A i \in 1..Len(data.rows) :
           (IsMeal(i) /\ ~InputHasMacros(i)) =>
             /\ \A j \in 1..Len(frame.meals) : frame.meals[j].index # i - 1
             /\ ~Labelled(data, i).label_is_synthetic
             /\ Labelled(data, i).calories_kcal = InputCalories(i)

\* a meal row with calories but a missing macro was dropped while another was kept
C2_Witness ==
    /\ FrameComputed
    /\ Len(frame.meals) = 1
    /\ \E i \in 1..Len(data.rows) :
         IsMeal(i) /\ ~InputHasMacros(i) /\ InputCalories(i) # NaN

\* C9: a training row whose calories_kcal was present in the input keeps that value,
\* and label_is_synthetic is true exactly for the training rows whose calories_kcal
\* was missing in the input.
C9_RealLabelsKept ==
    FrameComputed =>
      \A j \in 1..Len(frame.meals) :
        /\ InputCalories(frame.meals[j].index + 1) # NaN =>
             frame.meals[j].calories_kcal = InputCalories(frame.meals[j].index + 1)
        /\ frame.meals[j].label_is_synthetic
             <=> InputCalories(frame.meals[j].index + 1) = NaN

\* a logged 5 kcal is kept for macros 2, 2, 2 (4/4/9 gives 34) next to a synthetic row
C9_Witness ==
    /\ FrameComputed
    /\ \E j \in 1..Len(frame.meals) :
         /\ InputCalories(frame.meals[j].index + 1) = 5
         /\ frame.meals[j].calories_kcal = 5
         /\ ~frame.meals[j].label_is_synthetic
    /\ \E j \in 1..Len(frame.meals) : frame.meals[j].label_is_synthetic

(* ===================== train.py and predict.py runs ==================== *)
\* the strategy the specification gives for n usable samples
ClaimedStrategy(n) ==
    IF n >= 10 THEN "holdout 25%"
    ELSE IF n >= 6 THEN "KFold CV"
    ELSE IF n >= 3 THEN "LOO CV"
    ELSE "baseline (too few samples)"

Trained == trainOut.status # "none"

\* C3 as stated: after a training run on n usable samples, for every n, the strategy of
\* the table (n < 3: the linear baseline) was taken and is the cv_note of the metadata.
C3_AsStated ==
    Trained =>
      /\ trainOut.cv_note = ClaimedStrategy(Len(frame.y))
      /\ metaFile.exists
      /\ metaFile.json.cv_note = trainOut.cv_note
      /\ metaFile.json.n_samples = Len(frame.y)

\* C3: for n >= 1 the run takes the strategy of the table (1 <= n < 3: the linear
\* baseline) and records it, with n, in the metadata: 3 folds for k-fold, n folds for
\* leave-one-out, ceil(n/4) held-out rows for the holdout; for n = 0 the run takes
\* no strategy and ends with the no-rows error.
C3_StrategyByCount ==
    Trained =>
      IF Len(frame.y) = 0
      THEN trainOut.status = "no_rows" /\ trainOut.cv_note = ""
      ELSE /\ trainOut.cv_note = ClaimedStrategy(Len(frame.y))
           /\ metaFile.exists
           /\ metaFile.json.cv_note = trainOut.cv_note
           /\ metaFile.json.n_samples = Len(frame.y)
           /\ trainOut.cv_note = "holdout 25%" =>
                /\ 4 * trainOut.test_rows >= Len(frame.y)
                /\ 4 * (trainOut.test_rows - 1) < Len(frame.y)
                /\ modelFile.fit_rows = Len(frame.y) - trainOut.test_rows
           /\ trainOut.cv_note = "KFold CV" => trainOut.folds = 3
           /\ trainOut.cv_note = "LOO CV" => trainOut.folds = Len(frame.y)
           /\ trainOut.cv_note = "baseline (too few samples)" =>
                /\ trainOut.folds = 0 /\ trainOut.test_rows = 0
                /\ modelFile.estimator = "LinearRegression"
           /\ Len(frame.y) = 5 => trainOut.cv_note = "LOO CV"
           /\ Len(frame.y) = 12 =>
                /\ trainOut.cv_note = "holdout 25%"
                /\ trainOut.test_rows = 3 /\ modelFile.fit_rows = 9

\* a run on 12 usable samples held 3 of them out
C3_Witness ==
    /\ trainOut.status = "ok"
    /\ Len(frame.y) = 12
    /\ metaFile.json.cv_note = "holdout 25%"
    /\ trainOut.test_rows = 3

ProfileFeaturesUnavailable ==
    \/ profile.file # "ok"
    \/ "preferences" \notin DOMAIN profile.json
    \/ DOMAIN profile.json["preferences"] = {}

\* C4: when the profile is missing, unreadable or without preferences, the vector
\* handed to the model is as long as the schema of the metadata, starts with the
\* three macros in the order protein, carbs, fat, and is zero after them.
C4_ZeroPadded ==
    (predOut.model_loaded /\ metaFile.exists /\ ProfileFeaturesUnavailable) =>
      /\ Len(predOut.features) = Len(metaFile.json.schema)
      /\ Len(predOut.features) >= 3
      /\ predOut.features[1] = predOut.p
      /\ predOut.features[2] = predOut.c
      /\ predOut.features[3] = predOut.f
      /\ \A i \in 4..Len(predOut.features) : predOut.features[i] = 0

\* predict_example ran without a profile file: 30, 60, 10 and seven zeros
C4_Witness ==
    /\ predOut.status = "ok"
    /\ profile.file = "missing"
    /\ predOut.features = <<30, 60, 10, 0, 0, 0, 0, 0, 0, 0>>

\* C5: the columns a prediction assumes for the vector it hands to the model are, in
\* names, order and number, the schema the training run wrote to the metadata and
\* the columns the persisted model was fit on (a call that raises on a NaN items
\* argument hands no vector to the model).
C5_SchemaRoundTrip ==
    (predOut.model_loaded /\ predOut.status # "attribute_error") =>
      /\ metaFile.exists
      /\ predOut.columns = metaFile.json.schema
      /\ predOut.columns = modelFile.columns
      /\ Len(predOut.features) = Len(modelFile.columns)
      /\ predOut.status = "ok"

\* a prediction that took the profile branch
C5_Witness ==
    /\ predOut.status = "ok"
    /\ ~ProfileFeaturesUnavailable
    /\ Len(predOut.columns) = 10
    /\ predOut.columns[10] = "personalization_score"

\* C6: a training run that finds no usable row ends with the no-rows error and
\* leaves the model file, the metadata file and the profile file as they were.
C6_NoRowsNoWrites ==
    [][ (now' # now /\ Len(frame'.y) = 0) =>
          /\ trainOut'.status = "no_rows"
          /\ modelFile' = modelFile
          /\ metaFile' = metaFile
          /\ profile' = profile ]_vars

\* a run without usable rows after a run that had written a model and its metadata
C6_Witness ==
    /\ trainOut.status = "no_rows"
    /\ modelFile.exists
    /\ metaFile.exists

\* C7: a run of predict.py loads the model and predicts only if the model file exists
\* and has at least 1024 bytes; otherwise it ends with an error before the model,
\* the metadata or the profile is read and before any vector is built.
C7_ModelGuard ==
    predOut.via = "script" =>
      /\ (predOut.model_loaded \/ predOut.status = "ok") =>
           (modelFile.exists /\ modelFile.size >= 1024)
      /\ (~modelFile.exists \/ modelFile.size < 1024) =>
           /\ predOut.status \in {"model_not_found", "model_too_small"}
           /\ ~predOut.model_loaded
           /\ ~predOut.meta_read
           /\ ~predOut.profile_read
           /\ predOut.features = <<>>
      /\ (modelFile.exists /\ modelFile.size >= 1024) => predOut.model_loaded

\* predict.py refused a model file of fewer than 1024 bytes
C7_Witness ==
    /\ predOut.via = "script"
    /\ predOut.status = "model_too_small"
    /\ modelFile.exists

AccuracyTrend(pf) ==
    Get(Get(pf.json, "learning_metrics", EmptyDict), "accuracy_trend", <<>>)

\* a training run that reached the end of main and saved the profile
CompletedWithProfile ==
    /\ now' # now
    /\ trainOut'.status = "ok"
    /\ trainOut'.profile_saved

\* C8 as stated: every completed training run, whatever its validation strategy, adds
\* one entry to accuracy_trend, which keeps at most 10.
C8_AsStated ==
    [][ CompletedWithProfile =>
          /\ Len(AccuracyTrend(profile')) <= 10
          /\ Len(AccuracyTrend(profile')) = Min(10, Len(AccuracyTrend(profile)) + 1)
      ]_vars

\* C8: a completed run whose metrics hold "r2" (holdout, and the baseline with nan)
\* appends that r2 and keeps the last 10 entries in order; a run whose metrics hold
\* r2_mean instead (k-fold, leave-one-out) leaves accuracy_trend as it was.
C8_TrendOfR2Runs ==
    [][ CompletedWithProfile =>
          IF "r2" \in DOMAIN trainOut'.metrics
          THEN /\ Len(AccuracyTrend(profile')) = Min(10, Len(AccuracyTrend(profile)) + 1)
               /\ AccuracyTrend(profile')[Len(AccuracyTrend(profile'))]
                    = trainOut'.metrics["r2"]
               /\ \A i \in 1..(Len(AccuracyTrend(profile')) - 1) :
                    AccuracyTrend(profile')[i] =
                      AccuracyTrend(profile)[Len(AccuracyTrend(profile)) + 1
                                             - Len(AccuracyTrend(profile')) + i]
          ELSE /\ trainOut'.cv_note \in {"KFold CV", "LOO CV"}
               /\ AccuracyTrend(profile') = AccuracyTrend(profile)
      ]_vars

\* a holdout run pushed the oldest of ten entries out
C8_Witness ==
    /\ trainOut.status = "ok"
    /\ trainOut.cv_note = "holdout 25%"
    /\ trainOut.profile_saved
    /\ AccuracyTrend(profile) = <<12, 13, 14, 15, 16, 17, 18, 19, 20, 40>>

\* C10 as stated: after a completed training run, a prediction for the macros and
\* items of a training row computes the seven profile values that row was trained on.
C10_AsStated ==
    (predOut.status = "ok" /\ trainOut.status = "ok") =>
      \A j \in 1..Len(frame.meals) :
        ( /\ frame.meals[j].protein_g = predOut.p
          /\ frame.meals[j].carbs_g = predOut.c
          /\ frame.meals[j].fat_g = predOut.f
          /\ frame.meals[j].items = predOut.items ) =>
          SubSeq(predOut.features, 4, 10) =
            << frame.meals[j].has_favorite_food,
               frame.meals[j].has_favorite_snack,
               frame.meals[j].has_grocery_item,
               frame.meals[j].profile_protein_ratio,
               frame.meals[j].profile_carbs_ratio,
               frame.meals[j].profile_fat_ratio,
               frame.meals[j].personalization_score >>

(* ------------------------- reachability notes -------------------------- *)
\* lower() on a Latin-1 capital: the snack 'CAFÉ' is found in 'café au lait'
AccentedMatchSeen ==
    \E j \in 1..Len(frame.meals) :
       /\ frame.meals[j].items = T_cafe_au_lait
       /\ frame.meals[j].has_favorite_snack = 1

\* a call with the NaN of an empty items cell raised in the profile branch
NanItemsRaised == predOut.status = "attribute_error"

\* a call with NaN items and preferences whose lists are empty built its vector
NanItemsUntouched ==
    /\ predOut.status = "ok"
    /\ predOut.items_nan
    /\ predOut.profile_read
    /\ HasPreferences(profile)

====
